---- MODULE Spec2Model ----
(***************************************************************************)
(* Model of the bootstrap core hook of tk-config-unreal                    *)
(* (core/hooks/bootstrap.py): Bootstrap.can_cache_bundle and               *)
(* Bootstrap.populate_bundle_cache_entry, with the helpers                 *)
(* _should_download_release and _download_zip_github_asset.                *)
(*                                                                         *)
(* Strings that the code only compares or formats are TLA+ strings;        *)
(* strings that the code matches against a regular expression (the         *)
(* version, the platform name, the asset names) are tuples of characters.  *)
(***************************************************************************)
EXTENDS Integers, Sequences, FiniteSets, TLC

\* ------------------------------------------------------------------ bounds

\* Longest asset list a release answers with.
MaxAssets == 2
\* Most redirections the server answers to one asset download.
MaxRedirects == 1

\* --------------------------------------------------------- python values

None == "<None>"

\* Python truthiness of an optional string: None and "" are false.
Truthy(x) == x \notin {None, ""}

\* ------------------------------------------------ registered source list

\* The list as shipped: two public repositories, no token.
ShippedSources ==
    << <<"ue4plugins/tk-framework-unrealqt", "">>,
       <<"GPLgithub/tk-framework-unrealqt", "">> >>

\* The same list edited for a private repository (a token on the first entry).
PrivateSources ==
    << <<"ue4plugins/tk-framework-unrealqt", "s3cr3t">>,
       <<"GPLgithub/tk-framework-unrealqt", "">> >>

SourceLists == {ShippedSources, PrivateSources}

\* ------------------------------------------------------------ descriptors

\* "git@<host>:<org>/<repo>.git"
GitUrl(host, org, repo) == "git@" \o host \o ":" \o org \o "/" \o repo \o ".git"

V12 == <<"v", "1", ".", "2">>
Versions == {V12}

\* descriptor.get_dict() together with descriptor.version. A github_release
\* descriptor carries organization and repository; the code does not rely on it:
\* a field may be missing or empty, and a path may be there besides (taken here
\* with fields that name no registered repository, where the path could make a
\* difference). A git descriptor carries a path only, an app_store descriptor
\* neither, a path descriptor a local folder.
GithubReleaseDescriptors ==
    [type : {"github_release"}, organization : {None, "ue4plugins", "acme"},
     repository : {None, "", "tk-framework-unrealqt"}, path : {None},
     version : Versions]
    \cup
    [type : {"github_release"}, organization : {None, "acme"},
     repository : {"tk-framework-unrealqt"},
     path : {GitUrl("github.com", "ue4plugins", "tk-framework-unrealqt")},
     version : Versions]

GitDescriptors ==
    [type : {"git"}, organization : {None}, repository : {None},
     path : {GitUrl("github.com", "ue4plugins", "tk-framework-unrealqt"),
             GitUrl("gitlab.com", "ue4plugins", "tk-framework-unrealqt"),
             GitUrl("github.com", "acme", "tk-framework-unrealqt"),
             "git@github.com:ue4plugins/tk-framework-unrealqt"},
     version : Versions]

OtherDescriptors ==
    [type : {"app_store"}, organization : {None}, repository : {None},
     path : {None}, version : Versions]
    \cup
    [type : {"path"}, organization : {None}, repository : {None},
     path : {"/srv/bundles/tk-framework-unrealqt"}, version : Versions]

Descriptors == GithubReleaseDescriptors \cup GitDescriptors \cup OtherDescriptors

\* --------------------------------------------- _should_download_release

\* Index of the first of keys, from i on, that equals wanted, 0 if none (the
\* for loop returns at the first hit).
RECURSIVE FirstIndex(_, _, _)
FirstIndex(keys, wanted, i) ==
    IF i > Len(keys) THEN 0
    ELSE IF keys[i] = wanted THEN i
    ELSE FirstIndex(keys, wanted, i + 1)

\* GitPathOf with the ".git" suffix forgotten.
GitPathOf_NoSuffix(name) == "git@github.com:" \o name

\* "git@github.com:%s.git" % name
GitPathOf(name) == "git@github.com:" \o name \o ".git"

\* The function's result: a <<name, token>> pair, or NoSpecs (Python's None,
\* false in "if not specs" as the empty tuple is).
NoSpecs == <<>>

\* should_download_release_github with the two fields formatted in the wrong
\* order.
should_download_release_github_Swapped(list, desc) ==
    IF ~Truthy(desc.organization) \/ ~Truthy(desc.repository) THEN NoSpecs
    ELSE LET desc_path == desc.repository \o "/" \o desc.organization
             i == FirstIndex([k \in 1..Len(list) |-> list[k][1]], desc_path, 1)
         IN  IF i = 0 THEN NoSpecs ELSE list[i]

should_download_release_github(list, desc) ==
    IF ~Truthy(desc.organization) \/ ~Truthy(desc.repository) THEN NoSpecs
    ELSE LET desc_path == desc.organization \o "/" \o desc.repository
             i == FirstIndex([k \in 1..Len(list) |-> list[k][1]], desc_path, 1)
         IN  IF i = 0 THEN NoSpecs ELSE list[i]

should_download_release_path(list, desc) ==
    LET desc_path == desc.path
        i == FirstIndex([k \in 1..Len(list) |-> GitPathOf(list[k][1])],
                        desc_path, 1)
    IN  IF i = 0 THEN NoSpecs ELSE list[i]

\* should_download_release with "if" for "elif": a github_release descriptor
\* that names no registered repository goes on to the path test.
should_download_release_FallsThrough(list, desc) ==
    LET byName == IF desc.type = "github_release"
                  THEN should_download_release_github(list, desc)
                  ELSE NoSpecs
    IN  IF byName # NoSpecs THEN byName
        ELSE IF Truthy(desc.path) THEN should_download_release_path(list, desc)
        ELSE NoSpecs

should_download_release(list, desc) ==
    IF desc.type = "github_release"
        THEN should_download_release_github(list, desc)
    ELSE IF Truthy(desc.path)
        THEN should_download_release_path(list, desc)
    ELSE NoSpecs

\* can_cache_bundle with the truth of the token taken for the truth of specs.
can_cache_bundle_ByToken(list, desc) ==
    LET sp == should_download_release(list, desc)
    IN  sp # NoSpecs /\ Truthy(sp[2])

\* bool(specs): None is false, a 2-tuple is true.
can_cache_bundle(list, desc) == should_download_release(list, desc) # NoSpecs

\* ------------------------------------------------------ asset name match

Digits == {"0", "1", "2", "3", "4", "5", "6", "7", "8", "9"}

Lit(ch) == [k |-> "lit", c |-> ch]
AnyChar == [k |-> "any", c |-> ""]
Digit == [k |-> "digit", c |-> ""]

\* A string interpolated into the pattern as it is (no re.escape): "." is the
\* any-character metacharacter, letters, digits, "-" and "_" stand for themselves.
Interpolated(str) ==
    [i \in 1..Len(str) |-> IF str[i] = "." THEN AnyChar ELSE Lit(str[i])]

\* r"%s-py\d.\d-%s.zip" % (version, pname)
AssetPattern(version, pname) ==
    Interpolated(version)
    \o <<Lit("-"), Lit("p"), Lit("y"), Digit, AnyChar, Digit, Lit("-")>>
    \o Interpolated(pname)
    \o <<AnyChar, Lit("z"), Lit("i"), Lit("p")>>

ElemMatches(e, ch) ==
    CASE e.k = "lit" -> ch = e.c
      [] e.k = "digit" -> ch \in Digits
      [] e.k = "any" -> ch # "\n"

\* re.match(pattern, name): the pattern matches at the start of name; what
\* follows the match is not looked at.
re_match(pattern, name) ==
    /\ Len(name) >= Len(pattern)
    /\ \A i \in 1..Len(pattern) : ElemMatches(pattern[i], name[i])

\* {"Darwin": "osx", "Linux": "linux", "Windows": "win"}.get(platform.system());
\* NoPlatform is the None of a system that is no key (false in "if not pname").
NoPlatform == <<>>

\* PlatformName with "linux" as the default of the lookup.
PlatformName_Defaults(system) ==
    CASE system = "Darwin" -> <<"o", "s", "x">>
      [] system = "Windows" -> <<"w", "i", "n">>
      [] OTHER -> <<"l", "i", "n", "u", "x">>

PlatformName(system) ==
    CASE system = "Darwin" -> <<"o", "s", "x">>
      [] system = "Linux" -> <<"l", "i", "n", "u", "x">>
      [] system = "Windows" -> <<"w", "i", "n">>
      [] OTHER -> NoPlatform

\* -------------------------------------------------- releases and assets

Osx == <<"o", "s", "x">>
Linux == <<"l", "i", "n", "u", "x">>

\* "<version>-py<d1><sep><d2>-<platform><dot>zip<suffix>"
NameOf(version, d1, sep, d2, platform, dot, suffix) ==
    version \o <<"-", "p", "y", d1, sep, d2, "-">> \o platform
            \o <<dot, "z", "i", "p">> \o suffix

\* The asset names a release may carry: the convention's names for two Python
\* versions and two platforms, a name with something after ".zip", a name with
\* another character where the convention has a dot, and a name of another
\* version.
AssetNames ==
    {NameOf(V12, "2", ".", "7", Osx, ".", <<>>),
     NameOf(V12, "3", ".", "7", Osx, ".", <<>>),
     NameOf(V12, "2", ".", "7", Linux, ".", <<>>),
     NameOf(V12, "2", ".", "7", Osx, ".", <<".", "m", "d", "5">>),
     NameOf(V12, "2", "_", "7", Osx, ".", <<>>),
     NameOf(<<"v", "1", "0", "2">>, "2", ".", "7", Osx, ".", <<>>)}

ApiHost == "api.github.com"

\* asset["url"], the url the hosting API gives the asset of a repository: one
\* for each of its assets (assets are kept by their names, asset["name"]).
AssetUrl(name, asset_name) ==
    [host |-> ApiHost,
     path |-> <<"repos", name, "releases", "assets">> \o asset_name]

\* Where the hosting service redirects a download to: its storage host, or
\* another place on the API host.
RedirectTargets ==
    {[host |-> "objects.githubusercontent.com", path |-> <<"download">>],
     [host |-> ApiHost, path |-> <<"download">>]}

\* The asset lists a release answers with: names are unique within a release.
RECURSIVE SeqsUpTo(_, _)
SeqsUpTo(S, n) ==
    IF n = 0 THEN {<<>>}
    ELSE LET shorter == SeqsUpTo(S, n - 1)
         IN  shorter \cup
             {Append(q, x) : q \in {r \in shorter : Len(r) = n - 1}, x \in S}

NameLists ==
    {q \in SeqsUpTo(AssetNames, MaxAssets) :
        \A i, j \in 1..Len(q) : i # j => q[i] # q[j]}

\* ------------------------------------------------------------- exceptions

Exc(type, code, what, names) ==
    [type |-> type, code |-> code, what |-> what, names |-> names]

NoExc == Exc("", 0, "", <<>>)
DontKnowHowToDownload == Exc("RuntimeError", 0, "Don't know how to download", <<>>)
UnsupportedPlatform == Exc("ValueError", 0, "Unsupported platform", <<>>)
NoSuitableAsset(names) ==
    Exc("RuntimeError", 0, "Couldn't retrieve a suitable asset", names)
\* urllib's errors: an HTTPError has a code, a plain URLError has none.
HTTPError(code) == Exc("HTTPError", code, "", <<>>)
URLError == Exc("URLError", 0, "", <<>>)
JSONError == Exc("ValueError", 0, "No JSON object could be decoded", <<>>)
IOError == Exc("IOError", 0, "", <<>>)
BadZipFile == Exc("BadZipFile", 0, "", <<>>)

HasCode(e) == e.type = "HTTPError"

\* An error that urlopen, json.loads, the file write or the extraction raised
\* into the hook, and where.
Fault(at, e) == [at |-> at, exc |-> e]

\* ==================================================== turntable plugin
\* hooks/tk-multi-publish2/tk-maya/basic/publish_turntable.py:
\* MayaUnrealTurntablePublishPlugin. Paths are tuples of path components and
\* Unreal version numbers tuples of their dot-separated parts; the empty tuple
\* stands for a None or "" (both false in "if not ...").

\* Most Unreal installations scan_software finds.
MaxInstalled == 2

NoPath == <<>>
NoVersion == <<>>
NoTemplate == <<>>

V425 == <<"4", "25">>
V426 == <<"4", "26">>
V4272 == <<"4", "27", "2">>

\* Where an Unreal editor of a version is installed.
EditorOf(version) == <<"Epic Games">> \o version \o <<"UE4Editor">>

\* A SoftwareVersion as the tk-unreal launcher's scan_software gives it.
SoftwareVersion(version, display_name, path) ==
    [version |-> version, display_name |-> display_name, path |-> path]

\* What scan_software may find: a 4.26, a development build of 4.27.2, and a
\* 4.25 whose executable is gone since.
Installations ==
    {SoftwareVersion(V426, <<"Unreal Engine", "4.26">>, EditorOf(V426)),
     SoftwareVersion(V4272, <<"Unreal Engine", "4.27.2", "(Dev Build)">>,
                     EditorOf(V4272)),
     SoftwareVersion(V425, <<"Unreal Engine", "4.25">>, EditorOf(V425))}

Scans ==
    {q \in SeqsUpTo(Installations, MaxInstalled) :
        \A i, j \in 1..Len(q) : i # j => q[i] # q[j]}

\* "(Dev Build)" not in software_version.display_name
IsReleaseBuild(software_version) ==
    \A i \in 1..Len(software_version.display_name) :
        software_version.display_name[i] # "(Dev Build)"

IsDevBuild(software_version) == ~IsReleaseBuild(software_version)

\* get_unreal_versions: the builds scanned, those that are no development
\* build first.
get_unreal_versions(scanned) ==
    SelectSeq(scanned, IsReleaseBuild) \o SelectSeq(scanned, IsDevBuild)

\* The default of the "Unreal Project Path Template" setting.
DefaultProjectTemplate ==
    <<"{config}", "tk-multi-publish2", "tk-maya", "unreal", "resources",
      "{unreal_engine_version}", "turntable", "turntable.uproject">>

\* ".".join(unreal_engine_version.split(".")[:2])
ShortVersion(version) ==
    IF Len(version) = 1 THEN version[1] ELSE version[1] \o "." \o version[2]

\* The three str.replace of _evaluate_unreal_project_path, on one component.
Expand(component, short_version) ==
    CASE component = "{config}" -> "config/hooks"
      [] component = "{engine}" -> "tk-maya/hooks"
      [] component = "{unreal_engine_version}" -> short_version
      [] OTHER -> component

\* _evaluate_unreal_project_path(unreal_project_path_template,
\* unreal_engine_version): None without a template or a version.
evaluate_unreal_project_path(template, version) ==
    IF template = NoTemplate THEN NoPath
    ELSE IF version = NoVersion THEN NoPath
    ELSE [i \in 1..Len(template) |-> Expand(template[i], ShortVersion(version))]

CustomProject == <<"projects", "turntable", "custom.uproject">>
ProjectFolder == <<"projects", "turntable">>
LostProject == <<"projects", "lost.uproject">>

\* The disk as os.path.exists and os.path.isfile see it: the editors of 4.26
\* and 4.27.2 are installed, the configuration ships a turntable project for
\* 4.26 only.
DiskKind(path) ==
    CASE path \in {EditorOf(V426), EditorOf(V4272), CustomProject,
                   evaluate_unreal_project_path(DefaultProjectTemplate, V426)}
             -> "file"
      [] path = ProjectFolder -> "dir"
      [] OTHER -> "none"

\* The plugin's settings, as configured or edited in the UI.
Settings ==
    [engine_version : {NoVersion, V426, V4272},
     engine_path : {NoPath, EditorOf(V426), EditorOf(V425)},
     project_template : {NoTemplate, DefaultProjectTemplate},
     project_path : {NoPath, CustomProject, ProjectFolder, LostProject},
     map_path : {"", "/Game/turntable/level/turntable.umap"},
     sequence_path :
         {"", "/Game/turntable/sequence/turntable_sequence.turntable_sequence"},
     assets_path : {"", "/Game/maya_turntable_assets/"}]

DefaultSettings ==
    [engine_version |-> V426,
     engine_path |-> NoPath,
     project_template |-> DefaultProjectTemplate,
     project_path |-> NoPath,
     map_path |-> "/Game/turntable/level/turntable.umap",
     sequence_path |-> "/Game/turntable/sequence/turntable_sequence.turntable_sequence",
     assets_path |-> "/Game/maya_turntable_assets/"]

NoVersionDetected ==
    Exc("RuntimeError", 0, "No Unreal version could be detected on this machine", <<>>)
ExecutableNotFound == Exc("RuntimeError", 0, "Unreal executable not found", <<>>)
ProjectNotFound == Exc("RuntimeError", 0, "Unreal project not found", <<>>)
\* Building the message of "Unable to build an Unreal project path" reads
\* unreal_engine_version, a name get_unreal_project_property does not bind.
NameError == Exc("NameError", 0, "name 'unreal_engine_version' is not defined", <<>>)

\* get_unreal_exec_property with the version of the settings kept when the
\* first build detected is taken for want of a matching one.
get_unreal_exec_property_KeepsVersion(settings, scanned) ==
    LET explicit == settings.engine_path
        versions == get_unreal_versions(scanned)
        k == FirstIndex([i \in 1..Len(versions) |-> versions[i].version],
                        settings.engine_version, 1)
        unreal_exec_path ==
            IF explicit # NoPath THEN explicit
            ELSE IF k # 0 THEN versions[k].path
            ELSE versions[1].path
    IN  IF explicit = NoPath /\ versions = <<>>
            THEN [exc |-> NoVersionDetected]
        ELSE IF unreal_exec_path = NoPath \/ DiskKind(unreal_exec_path) = "none"
            THEN [exc |-> ExecutableNotFound]
        ELSE [exc |-> NoExc,
              unreal_exec_path |-> unreal_exec_path,
              unreal_engine_version |-> settings.engine_version]

\* get_unreal_exec_property: what it raises, or what it sets on the item. With
\* no path in the settings the for/else takes the first build detected whose
\* version is the one of the settings, or else the first build and its version.
get_unreal_exec_property(settings, scanned) ==
    LET explicit == settings.engine_path
        versions == get_unreal_versions(scanned)
        k == FirstIndex([i \in 1..Len(versions) |-> versions[i].version],
                        settings.engine_version, 1)
        unreal_exec_path ==
            IF explicit # NoPath THEN explicit
            ELSE IF k # 0 THEN versions[k].path
            ELSE versions[1].path
        unreal_engine_version ==
            IF explicit # NoPath \/ k # 0 THEN settings.engine_version
            ELSE versions[1].version
    IN  IF explicit = NoPath /\ versions = <<>>
            THEN [exc |-> NoVersionDetected]
        ELSE IF unreal_exec_path = NoPath \/ DiskKind(unreal_exec_path) = "none"
            THEN [exc |-> ExecutableNotFound]
        ELSE [exc |-> NoExc,
              unreal_exec_path |-> unreal_exec_path,
              unreal_engine_version |-> unreal_engine_version]

\* get_unreal_project_property: what it raises, or the path it sets on the
\* item, for the unreal_engine_version the item carries.
get_unreal_project_property(settings, unreal_engine_version) ==
    LET unreal_project_path ==
            IF settings.project_path # NoPath THEN settings.project_path
            ELSE evaluate_unreal_project_path(settings.project_template,
                                              unreal_engine_version)
    IN  IF unreal_project_path = NoPath THEN [exc |-> NameError]
        ELSE IF DiskKind(unreal_project_path) # "file"
            THEN [exc |-> ProjectNotFound]
        ELSE [exc |-> NoExc, unreal_project_path |-> unreal_project_path]

\* ------------------------------------------------------------------ state

VARIABLES
    sources,        \* Bootstrap._download_release_from_github
    proxy_handler,  \* whether shotgun.config.proxy_handler is set
    system,         \* platform.system()
    opener,         \* the opener installed with url2.install_opener
    pc,             \* where the hook is
    canRet,         \* what can_cache_bundle returned last, and for what
    descd,          \* populate: the descriptor
    specs,          \* populate: the <<name, token>> resolved
    assets,         \* populate: response_d["assets"], each asset by its name
    idx,            \* populate: the loop's position in assets
    extracted,      \* populate: the loop's "extracted" list (positions in assets)
    request,        \* the request on the wire
    payload,        \* the body the download answered with
    hops,           \* redirections followed for the request on the wire
    reqRelease,     \* requests sent to the release url in this call
    reqAsset,       \* requests sent to each asset's url in this call
    destBefore,     \* whether destination existed when populate was called
    destExists,     \* whether destination exists
    destFiles,      \* the files in destination
    log,            \* what the call logged
    outcome,        \* how the call ended
    faults          \* the errors the network and the disk answered this call with

\* The turntable plugin and the item it works on.
VARIABLES
    settings,       \* the plugin's settings
    scanned,        \* what the tk-unreal launcher's scan_software finds
    disk_location,  \* the folder of the hook file, os.path.dirname(__file__)
    item,           \* item.properties and item.local_properties
    ppc,            \* where the plugin is
    presult,        \* how the plugin's last call ended
    steps,          \* the steps publish has started and ended, in order
    environ,        \* the names set in os.environ
    movie           \* the movie file at the publish path

hook ==
    <<sources, proxy_handler, system, opener, pc, canRet, descd, specs, assets,
      idx, extracted, request, payload, hops, reqRelease, reqAsset, destBefore,
      destExists, destFiles, log, outcome, faults>>

VARIABLES
    fbx,            \* the FBX plugin on the same item: where it is, and its
                    \* own item.local_properties
    finalized       \* what each plugin's finalize gave the base finalization

plugin ==
    <<settings, scanned, disk_location, item, ppc, presult, steps, environ,
      movie, fbx, finalized>>

vars == <<hook, plugin>>

config == <<sources, proxy_handler, system>>
locals == <<specs, assets, idx, extracted>>
wire == <<request, payload, hops, reqRelease, reqAsset>>
disk == <<destBefore, destExists, destFiles>>

Systems == {"Darwin", "Linux", "Windows", "FreeBSD"}

\* build_opener() with no handler given: no proxy of ours, no credentials.
DefaultOpener == [proxy |-> FALSE, creds |-> <<>>]

NoOutcome == [kind |-> "none", exc |-> NoExc]
Returned == [kind |-> "returned", exc |-> NoExc]
Raised(e) == [kind |-> "raised", exc |-> e]

\* The hook between two calls.
HookIdle ==
    /\ opener = DefaultOpener
    /\ pc = "idle"
    /\ canRet = <<>>
    /\ descd = <<>>
    /\ specs = NoSpecs
    /\ assets = <<>>
    /\ idx = 0
    /\ extracted = <<>>
    /\ request = <<>>
    /\ payload = ""
    /\ hops = 0
    /\ reqRelease = 0
    /\ reqAsset = <<>>
    /\ destBefore = FALSE
    /\ destExists = FALSE
    /\ destFiles = {}
    /\ log = <<>>
    /\ outcome = NoOutcome
    /\ faults = <<>>

\* The properties the plugin reads or sets on the item, and the local ones.
Properties ==
    {"work_path", "unreal_exec_path", "unreal_engine_version",
     "unreal_project_path", "turntable_map_path", "sequence_path",
     "unreal_content_browser_path", "path", "publish_version", "temp_fbx_path",
     "sg_publish_data"}
LocalProperties ==
    {"publish_path", "publish_type", "temp_folder", "sg_publish_data",
     "sg_version_data"}

\* An item as the collector makes it: none of these properties set (a property
\* is <<>> while unset, <<value>> once set).
NewItem ==
    [properties |-> [name \in Properties |-> <<>>],
     local_properties |-> [name \in LocalProperties |-> <<>>]]

NoResult == [op |-> "", kind |-> "none", value |-> None, exc |-> NoExc]

\* The publish plugins that accept the maya.session.secondaries item.
Plugins == {"fbx", "turntable"}

\* The FBX plugin before its publish: its local properties of the item are its
\* own, the publisher keeps them by plugin.
FbxAtRest == [pc |-> "idle", sg_publish_data |-> <<>>]

\* No plugin's finalize has reached the base finalization.
NotFinalized == [p \in Plugins |-> <<>>]

\* The plugin before the publisher has called it, in a default configuration.
PluginAtRest ==
    /\ settings = DefaultSettings
    /\ scanned = <<>>
    /\ disk_location = <<"/opt/shotgun/config/hooks/tk-multi-publish2/tk-maya/basic">>
    /\ item = NewItem
    /\ ppc = "idle"
    /\ presult = NoResult
    /\ steps = <<>>
    /\ environ = {}
    /\ movie = "absent"
    /\ fbx = FbxAtRest
    /\ finalized = NotFinalized

\* The hook is constructed; the plugin is left alone.
Init ==
    /\ sources \in SourceLists
    /\ proxy_handler \in BOOLEAN
    /\ system \in Systems
    /\ HookIdle
    /\ PluginAtRest

\* ---------------------------------------------------------- can_cache_bundle

\* CanCacheBundle asking the release API whether the repository answers before
\* it says yes.
CanCacheBundle_Probes(d) ==
    /\ pc = "idle"
    /\ canRet' = <<[desc |-> d, ret |-> can_cache_bundle(sources, d)]>>
    /\ reqRelease' = IF can_cache_bundle(sources, d) THEN reqRelease + 1
                     ELSE reqRelease
    /\ UNCHANGED <<plugin, config, opener, pc, descd, locals, request, payload, hops,
                   reqAsset, disk, log, outcome, faults>>

\* can_cache_bundle(descriptor): reads the descriptor and the list, returns.
CanCacheBundle(d) ==
    /\ pc = "idle"
    /\ canRet' = <<[desc |-> d, ret |-> can_cache_bundle(sources, d)]>>
    /\ UNCHANGED <<plugin, config, opener, pc, descd, locals, wire, disk, log, outcome,
                   faults>>

\* ----------------------------------------------- populate_bundle_cache_entry

\* The except clause of the try block: logger.exception(e), then raise.
LogAndRaise(lines, e) ==
    /\ log' = log \o lines \o <<"exception:" \o e.type>>
    /\ outcome' = Raised(e)
    /\ pc' = "done"

\* The lines before the first request: the descriptor is resolved with
\* _should_download_release (a failure is raised before the try block, so it
\* is not logged), then the proxy opener is installed if a proxy is set.
PopulateBegin(d, exists) ==
    /\ pc = "idle"
    /\ canRet' = <<>>
    /\ descd' = <<d>>
    /\ destBefore' = exists
    /\ destExists' = exists
    /\ destFiles' = {}
    /\ log' = <<"info:Treating">>
    /\ faults' = <<>>
    /\ LET sp == should_download_release(sources, d)
       IN  IF sp = NoSpecs
           THEN /\ outcome' = Raised(DontKnowHowToDownload)
                /\ pc' = "done"
                /\ UNCHANGED <<opener, locals>>
           ELSE /\ specs' = sp
                /\ opener' = IF proxy_handler
                             THEN [proxy |-> TRUE, creds |-> <<>>]
                             ELSE opener
                /\ outcome' = NoOutcome
                /\ pc' = "query"
                /\ UNCHANGED <<assets, idx, extracted>>
    /\ UNCHANGED <<plugin, config, wire>>

\* ReleaseErrorLines with the two codes taken for each other.
ReleaseErrorLines_Swapped(e) ==
    IF HasCode(e) /\ e.code = 401 THEN <<"error:Release does not exists">>
    ELSE IF HasCode(e) /\ e.code = 404 THEN <<"error:Not authorised to access release">>
    ELSE <<>>

\* logger.error of the inner except clause, by the error's code.
ReleaseErrorLines(e) ==
    IF HasCode(e) /\ e.code = 404 THEN <<"error:Release does not exists">>
    ELSE IF HasCode(e) /\ e.code = 401 THEN <<"error:Not authorised to access release">>
    ELSE <<>>

ReleaseErrors == {HTTPError(404), HTTPError(401), HTTPError(500), URLError}

\* The release query fails: the inner except clause logs by the code and
\* re-raises, the outer one logs the exception and re-raises.
ReleaseQueryFails(e) ==
    /\ pc = "query"
    /\ reqRelease' = reqRelease + 1
    /\ faults' = Append(faults, Fault("release", e))
    /\ LogAndRaise(ReleaseErrorLines(e), e)
    /\ UNCHANGED <<plugin, config, opener, canRet, descd, locals, request, payload, hops,
                   reqAsset, disk>>

\* The release query answers with a body that json.loads refuses.
ReleaseQueryGarbled ==
    /\ pc = "query"
    /\ reqRelease' = reqRelease + 1
    /\ faults' = Append(faults, Fault("release body", JSONError))
    /\ LogAndRaise(<<>>, JSONError)
    /\ UNCHANGED <<plugin, config, opener, canRet, descd, locals, request, payload, hops,
                   reqAsset, disk>>

\* The release query answers with the release and its assets.
ReleaseQueryAnswers(names) ==
    /\ pc = "query"
    /\ reqRelease' = reqRelease + 1
    /\ assets' = names
    /\ reqAsset' = [i \in 1..Len(names) |-> 0]
    /\ pc' = "platform"
    /\ UNCHANGED <<plugin, config, opener, canRet, descd, specs, idx, extracted, request,
                   payload, hops, disk, log, outcome, faults>>

\* pname is looked up; an unknown system raises ValueError.
PlatformCheck ==
    /\ pc = "platform"
    /\ IF PlatformName(system) = NoPlatform
       THEN /\ LogAndRaise(<<>>, UnsupportedPlatform)
            /\ UNCHANGED <<idx, extracted>>
       ELSE /\ extracted' = <<>>
            /\ idx' = 1
            /\ pc' = "scan"
            /\ UNCHANGED <<log, outcome>>
    /\ UNCHANGED <<plugin, config, opener, canRet, descd, specs, assets, wire, disk,
                   faults>>

\* Whether the loop downloads the asset of this name.
Selected(version, pname, name) == re_match(AssetPattern(version, pname), name)

\* One turn of the loop over response_d["assets"]: a name the pattern matches
\* is downloaded, another is passed over.
ScanAsset ==
    /\ pc = "scan"
    /\ idx <= Len(assets)
    /\ IF Selected(descd[1].version, PlatformName(system), assets[idx])
       THEN /\ pc' = "download"
            /\ UNCHANGED idx
       ELSE /\ idx' = idx + 1
            /\ UNCHANGED pc
    /\ UNCHANGED <<plugin, config, opener, canRet, descd, specs, assets, extracted, wire,
                   disk, log, outcome, faults>>

\* After the loop: nothing extracted raises RuntimeError with the names of all
\* the assets, otherwise the call logs what it extracted and returns.
Finish ==
    /\ pc = "scan"
    /\ idx > Len(assets)
    /\ IF extracted = <<>>
       THEN LogAndRaise(<<>>,
                NoSuitableAsset([i \in 1..Len(assets) |-> assets[i]]))
       ELSE /\ log' = Append(log, "info:Extracted files")
            /\ outcome' = Returned
            /\ pc' = "done"
    /\ UNCHANGED <<plugin, config, opener, canRet, descd, locals, wire, disk, faults>>

\* ------------------------------------------------ _download_zip_github_asset

\* "token %s" % token
TokenAuthorization(token) == "token " \o token

\* What HTTPBasicAuthHandler sends for a user and a password.
BasicAuthorization(user, passwd) == "Basic " \o user \o ":" \o passwd

\* AssetRequest with add_header for add_unredirected_header.
AssetRequest_Redirectable(url, token) ==
    [url |-> url,
     headers |-> IF Truthy(token) THEN TokenAuthorization(token) ELSE "",
     unredirected |-> ""]

\* The Authorization header of a request
\* (request.add_unredirected_header if there is a token).
AssetRequest(url, token) ==
    [url |-> url,
     headers |-> "",
     unredirected |-> IF Truthy(token) THEN TokenAuthorization(token) ELSE ""]

\* The opener built for the download: HTTPBasicAuthHandler holding the token
\* as user and password for the asset's url, or a plain HTTPHandler.
AssetOpener(url, token) ==
    [proxy |-> proxy_handler,
     creds |-> IF Truthy(token)
               THEN <<[uri |-> url, user |-> token, passwd |-> token]>>
               ELSE <<>>]

\* The Authorization a request carries on the wire: an unredirected header
\* goes first.
OnWire(req) == IF req.unredirected # "" THEN req.unredirected ELSE req.headers

\* The opener is built and installed, the request is made and sent.
DownloadSend ==
    /\ pc = "download"
    /\ opener' = AssetOpener(AssetUrl(specs[1], assets[idx]), specs[2])
    /\ request' = <<AssetRequest(AssetUrl(specs[1], assets[idx]), specs[2])>>
    /\ reqAsset' = [reqAsset EXCEPT ![idx] = @ + 1]
    /\ hops' = 0
    /\ pc' = "await"
    /\ UNCHANGED <<plugin, config, canRet, descd, locals, payload, reqRelease, disk, log,
                   outcome, faults>>

\* urllib's redirect handler: the new request takes the headers of the old
\* one, never its unredirected headers.
Redirected(req, target) ==
    [url |-> target, headers |-> req.headers, unredirected |-> ""]

AnswerRedirect(target) ==
    /\ pc = "await"
    /\ hops < MaxRedirects
    /\ request' = <<Redirected(request[1], target)>>
    /\ hops' = hops + 1
    /\ UNCHANGED <<plugin, config, opener, pc, canRet, descd, locals, payload, reqRelease,
                   reqAsset, disk, log, outcome, faults>>

\* The password manager's lookup: credentials stored for a url serve a request
\* for that url (same host, path below it).
IsSubUri(base, test) ==
    /\ base.host = test.host
    /\ Len(test.path) >= Len(base.path)
    /\ SubSeq(test.path, 1, Len(base.path)) = base.path

CredentialsFor(op, url) ==
    IF op.creds # <<>> /\ IsSubUri(op.creds[1].uri, url) THEN op.creds ELSE <<>>

\* The server answers 401 with a Basic challenge. An opener holding credentials
\* for the url sends the request again with them, once; otherwise the 401 is
\* raised.
AnswerChallenge ==
    /\ pc = "await"
    /\ faults' = Append(faults, Fault("asset", HTTPError(401)))
    /\ LET req == request[1]
           found == CredentialsFor(opener, req.url)
       IN  IF found # <<>>
              /\ OnWire(req) # BasicAuthorization(found[1].user, found[1].passwd)
           THEN /\ request' = <<[req EXCEPT !.unredirected =
                        BasicAuthorization(found[1].user, found[1].passwd)]>>
                /\ reqAsset' = IF req.url = AssetUrl(specs[1], assets[idx])
                               THEN [reqAsset EXCEPT ![idx] = @ + 1]
                               ELSE reqAsset
                /\ UNCHANGED <<pc, log, outcome>>
           ELSE /\ LogAndRaise(<<>>, HTTPError(401))
                /\ UNCHANGED <<request, reqAsset>>
    /\ UNCHANGED <<plugin, config, opener, canRet, descd, locals, payload, hops,
                   reqRelease, disk>>

AssetErrors == {HTTPError(404), URLError}

\* AnswerError with the download tried again after a network error.
AnswerError_Retries(e) ==
    /\ pc = "await"
    /\ faults' = Append(faults, Fault("asset", e))
    /\ IF e = URLError /\ faults = <<>>
       THEN /\ pc' = "download"
            /\ UNCHANGED <<log, outcome>>
       ELSE LogAndRaise(<<>>, e)
    /\ UNCHANGED <<plugin, config, opener, canRet, descd, locals, wire, disk>>

\* The download fails: urlopen raises.
AnswerError(e) ==
    /\ pc = "await"
    /\ faults' = Append(faults, Fault("asset", e))
    /\ LogAndRaise(<<>>, e)
    /\ UNCHANGED <<plugin, config, opener, canRet, descd, locals, wire, disk>>

Payloads == {"zip", "corrupt"}

\* The download answers with a body.
AnswerBody(p) ==
    /\ pc = "await"
    /\ payload' = p
    /\ request' = <<>>
    /\ pc' = "write"
    /\ UNCHANGED <<plugin, config, opener, canRet, descd, locals, hops, reqRelease,
                   reqAsset, disk, log, outcome, faults>>

File(name, kind, whole) == [name |-> name, kind |-> kind, whole |-> whole]

\* destination is created if it is not there, and the body is written to the
\* file named after the asset; a failing write leaves what it wrote.
WriteArchive(ok) ==
    /\ pc = "write"
    /\ destExists' = TRUE
    /\ destFiles' = destFiles \cup {File(assets[idx], "archive", ok)}
    /\ LET lines == IF destExists THEN <<>> ELSE <<"info:Creating">>
       IN  IF ok
           THEN /\ log' = log \o lines
                /\ pc' = "extract"
                /\ UNCHANGED <<outcome, faults>>
           ELSE /\ faults' = Append(faults, Fault("write", IOError))
                /\ LogAndRaise(lines, IOError)
    /\ UNCHANGED <<plugin, config, opener, canRet, descd, locals, wire, destBefore>>

\* ExtractArchive with destination emptied when the extraction fails.
ExtractArchive_CleansUp(ok) ==
    /\ pc = "extract"
    /\ IF payload # "zip"
       THEN /\ faults' = Append(faults, Fault("extract", BadZipFile))
            /\ LogAndRaise(<<>>, BadZipFile)
            /\ destFiles' = {}
            /\ UNCHANGED <<extracted, idx>>
       ELSE IF ok
            THEN /\ destFiles' = destFiles \cup {File(assets[idx], "tree", ok)}
                 /\ extracted' = Append(extracted, idx)
                 /\ idx' = idx + 1
                 /\ pc' = "scan"
                 /\ UNCHANGED <<log, outcome, faults>>
            ELSE /\ destFiles' = {}
                 /\ faults' = Append(faults, Fault("extract", IOError))
                 /\ LogAndRaise(<<>>, IOError)
                 /\ UNCHANGED <<extracted, idx>>
    /\ UNCHANGED <<plugin, config, opener, canRet, descd, specs, assets, wire, destBefore,
                   destExists>>

\* ExtractArchive with a failing asset passed over: the error is logged and the
\* loop goes on to the next asset.
ExtractArchive_SkipsFailure(ok) ==
    /\ pc = "extract"
    /\ IF payload # "zip"
       THEN /\ faults' = Append(faults, Fault("extract", BadZipFile))
            /\ log' = Append(log, "exception:" \o BadZipFile.type)
            /\ idx' = idx + 1
            /\ pc' = "scan"
            /\ UNCHANGED <<destFiles, extracted, outcome>>
       ELSE /\ destFiles' = destFiles \cup {File(assets[idx], "tree", ok)}
            /\ idx' = idx + 1
            /\ pc' = "scan"
            /\ IF ok
               THEN /\ extracted' = Append(extracted, idx)
                    /\ UNCHANGED <<log, outcome, faults>>
               ELSE /\ faults' = Append(faults, Fault("extract", IOError))
                    /\ log' = Append(log, "exception:" \o IOError.type)
                    /\ UNCHANGED <<extracted, outcome>>
    /\ UNCHANGED <<plugin, config, opener, canRet, descd, specs, assets, wire, destBefore,
                   destExists>>

\* ExtractArchive with the archive removed once it is extracted.
ExtractArchive_RemovesArchive(ok) ==
    /\ pc = "extract"
    /\ IF payload # "zip"
       THEN /\ faults' = Append(faults, Fault("extract", BadZipFile))
            /\ LogAndRaise(<<>>, BadZipFile)
            /\ UNCHANGED <<destFiles, extracted, idx>>
       ELSE IF ok
            THEN /\ destFiles' = (destFiles \ {File(assets[idx], "archive", TRUE)})
                                     \cup {File(assets[idx], "tree", TRUE)}
                 /\ extracted' = Append(extracted, idx)
                 /\ idx' = idx + 1
                 /\ pc' = "scan"
                 /\ UNCHANGED <<log, outcome, faults>>
            ELSE /\ destFiles' = destFiles \cup {File(assets[idx], "tree", FALSE)}
                 /\ faults' = Append(faults, Fault("extract", IOError))
                 /\ LogAndRaise(<<>>, IOError)
                 /\ UNCHANGED <<extracted, idx>>
    /\ UNCHANGED <<plugin, config, opener, canRet, descd, specs, assets, wire, destBefore,
                   destExists>>

\* The archive is extracted into destination; back in the loop the asset is
\* appended to "extracted". A body that is no archive raises before anything is
\* extracted; a failing extraction leaves what it extracted.
ExtractArchive(ok) ==
    /\ pc = "extract"
    /\ IF payload # "zip"
       THEN /\ faults' = Append(faults, Fault("extract", BadZipFile))
            /\ LogAndRaise(<<>>, BadZipFile)
            /\ UNCHANGED <<destFiles, extracted, idx>>
       ELSE /\ destFiles' = destFiles \cup {File(assets[idx], "tree", ok)}
            /\ IF ok
               THEN /\ extracted' = Append(extracted, idx)
                    /\ idx' = idx + 1
                    /\ pc' = "scan"
                    /\ UNCHANGED <<log, outcome, faults>>
               ELSE /\ faults' = Append(faults, Fault("extract", IOError))
                    /\ LogAndRaise(<<>>, IOError)
                    /\ UNCHANGED <<extracted, idx>>
    /\ UNCHANGED <<plugin, config, opener, canRet, descd, specs, assets, wire, destBefore,
                   destExists>>

\* ------------------------------------------------------------- the caller

\* The bundle cache manager takes the result: a raised call's destination is
\* deleted, a returned call's destination is moved into the bundle cache.
CallerTakesResult ==
    /\ pc = "done"
    /\ pc' = "idle"
    /\ descd' = <<>>
    /\ specs' = NoSpecs
    /\ assets' = <<>>
    /\ idx' = 0
    /\ extracted' = <<>>
    /\ request' = <<>>
    /\ payload' = ""
    /\ hops' = 0
    /\ reqRelease' = 0
    /\ reqAsset' = <<>>
    /\ destBefore' = FALSE
    /\ destExists' = FALSE
    /\ destFiles' = {}
    /\ log' = <<>>
    /\ outcome' = NoOutcome
    /\ faults' = <<>>
    /\ UNCHANGED <<plugin, config, opener, canRet>>

Next ==
    \/ \E d \in Descriptors : CanCacheBundle(d)
    \/ \E d \in Descriptors, exists \in BOOLEAN : PopulateBegin(d, exists)
    \/ \E e \in ReleaseErrors : ReleaseQueryFails(e)
    \/ ReleaseQueryGarbled
    \/ \E names \in NameLists : ReleaseQueryAnswers(names)
    \/ PlatformCheck
    \/ ScanAsset
    \/ Finish
    \/ DownloadSend
    \/ \E target \in RedirectTargets : AnswerRedirect(target)
    \/ AnswerChallenge
    \/ \E e \in AssetErrors : AnswerError(e)
    \/ \E p \in Payloads : AnswerBody(p)
    \/ \E ok \in BOOLEAN : WriteArchive(ok)
    \/ \E ok \in BOOLEAN : ExtractArchive(ok)
    \/ CallerTakesResult

Spec == Init /\ [][Next]_vars

\* ================================================= turntable plugin: calls

SetProperty(it, name, value) == [it EXCEPT !.properties[name] = <<value>>]
SetLocalProperty(it, name, value) ==
    [it EXCEPT !.local_properties[name] = <<value>>]

PReturned(op, value) == [op |-> op, kind |-> "returned", value |-> value, exc |-> NoExc]
PRaised(op, e) == [op |-> op, kind |-> "raised", value |-> None, exc |-> e]

\* _session_path(): "" while the Maya session is not saved.
SessionPaths == {"", "/work/maya/robot_v001.ma"}

\* publish_template.apply_fields(work_fields): where the movie is published.
MoviePath == <<"publish", "turntable", "robot_v001.mov">>

\* " " in script_path
HasSpace(path) == \E i \in 1..Len(path) : path[i] = " "

DiskLocations ==
    {<<"/opt/shotgun/config/hooks/tk-multi-publish2/tk-maya/basic">>,
     <<"C:/Program", " ", "Files/Shotgun/config/hooks/tk-multi-publish2/tk-maya/basic">>}

\* The plugin of some site: its settings, the Unreal builds installed, the
\* place of the hook, and whether a movie of an earlier publish is at the
\* publish path.
PluginInit ==
    /\ sources = ShippedSources
    /\ proxy_handler = FALSE
    /\ system = "Linux"
    /\ HookIdle
    /\ settings \in Settings
    /\ scanned \in Scans
    /\ disk_location \in DiskLocations
    /\ item = NewItem
    /\ ppc = "idle"
    /\ presult = NoResult
    /\ steps = <<>>
    /\ environ = {}
    /\ movie \in {"absent", "stale"}
    /\ fbx = FbxAtRest
    /\ finalized = NotFinalized

\* ------------------------------------------------------------- validate

\* validate, up to the Unreal properties: an unsaved session and a work file
\* missing keys of the publish template return False.
ValidateBegin(path, missing_keys) ==
    /\ ppc \in {"idle", "validated"}
    /\ steps' = <<>>
    /\ IF path = ""
       THEN /\ presult' = PReturned("validate", FALSE)
            /\ ppc' = "idle"
            /\ UNCHANGED item
       ELSE /\ item' = SetProperty(item, "work_path", path)
            /\ IF missing_keys
               THEN /\ presult' = PReturned("validate", FALSE)
                    /\ ppc' = "idle"
               ELSE /\ presult' = NoResult
                    /\ ppc' = "unreal exec"
    /\ UNCHANGED <<hook, fbx, finalized, settings, scanned, disk_location, environ, movie>>

\* validate calls get_unreal_exec_property.
GetUnrealExecProperty ==
    /\ ppc = "unreal exec"
    /\ LET r == get_unreal_exec_property(settings, scanned)
       IN  IF r.exc # NoExc
           THEN /\ presult' = PRaised("get_unreal_exec_property", r.exc)
                /\ ppc' = "idle"
                /\ UNCHANGED item
           ELSE /\ item' = SetProperty(
                               SetProperty(item, "unreal_exec_path",
                                           r.unreal_exec_path),
                               "unreal_engine_version", r.unreal_engine_version)
                /\ ppc' = "unreal project"
                /\ UNCHANGED presult
    /\ UNCHANGED <<hook, fbx, finalized, settings, scanned, disk_location, steps, environ, movie>>

\* validate calls get_unreal_project_property.
GetUnrealProjectProperty ==
    /\ ppc = "unreal project"
    /\ LET r == get_unreal_project_property(
                    settings, item.properties["unreal_engine_version"][1])
       IN  IF r.exc # NoExc
           THEN /\ presult' = PRaised("get_unreal_project_property", r.exc)
                /\ ppc' = "idle"
                /\ UNCHANGED item
           ELSE /\ item' = SetProperty(item, "unreal_project_path",
                                       r.unreal_project_path)
                /\ ppc' = "unreal data"
                /\ UNCHANGED presult
    /\ UNCHANGED <<hook, fbx, finalized, settings, scanned, disk_location, steps, environ, movie>>

\* A validate that does not return False on an empty "Turntable Assets Path".
ValidateEnd_NoAssetsCheck ==
    /\ ppc = "unreal data"
    /\ LET withMap == SetProperty(item, "turntable_map_path", settings.map_path)
           withSequence ==
               SetProperty(withMap, "sequence_path", settings.sequence_path)
           withAssets ==
               IF settings.assets_path = "" THEN withSequence
               ELSE SetProperty(withSequence, "unreal_content_browser_path",
                                settings.assets_path)
           withPath ==
               SetProperty(withAssets, "path", item.properties["work_path"][1])
           withPublish ==
               SetLocalProperty(
                   SetLocalProperty(withPath, "publish_path", MoviePath),
                   "publish_type", "Unreal Turntable Render")
       IN  IF settings.map_path = ""
               THEN /\ item' = item
                    /\ presult' = PReturned("validate", FALSE)
                    /\ ppc' = "idle"
           ELSE IF settings.sequence_path = ""
               THEN /\ item' = withMap
                    /\ presult' = PReturned("validate", FALSE)
                    /\ ppc' = "idle"
           ELSE /\ item' = SetProperty(withPublish, "publish_version", 1)
                /\ presult' = PReturned("validate", TRUE)
                /\ ppc' = "validated"
    /\ UNCHANGED <<hook, fbx, finalized, settings, scanned, disk_location, steps, environ, movie>>

\* The rest of validate: the map, the sequence and the assets path are taken
\* from the settings, each returning False if empty, then the paths of the
\* publish are set and validate returns True.
ValidateEnd ==
    /\ ppc = "unreal data"
    /\ LET withMap == SetProperty(item, "turntable_map_path", settings.map_path)
           withSequence ==
               SetProperty(withMap, "sequence_path", settings.sequence_path)
           withAssets ==
               SetProperty(withSequence, "unreal_content_browser_path",
                           settings.assets_path)
           withPath ==
               SetProperty(withAssets, "path", item.properties["work_path"][1])
           withPublish ==
               SetLocalProperty(
                   SetLocalProperty(withPath, "publish_path", MoviePath),
                   "publish_type", "Unreal Turntable Render")
       IN  IF settings.map_path = ""
               THEN /\ item' = item
                    /\ presult' = PReturned("validate", FALSE)
                    /\ ppc' = "idle"
           ELSE IF settings.sequence_path = ""
               THEN /\ item' = withMap
                    /\ presult' = PReturned("validate", FALSE)
                    /\ ppc' = "idle"
           ELSE IF settings.assets_path = ""
               THEN /\ item' = withSequence
                    /\ presult' = PReturned("validate", FALSE)
                    /\ ppc' = "idle"
           ELSE /\ item' = SetProperty(withPublish, "publish_version", 1)
                /\ presult' = PReturned("validate", TRUE)
                /\ ppc' = "validated"
    /\ UNCHANGED <<hook, fbx, finalized, settings, scanned, disk_location, steps, environ, movie>>

\* -------------------------------------------------------------- publish

\* The steps the plugin's description gives, in its order.
StepOrder == <<"export", "setup", "render", "register", "version", "upload">>

Started(step) == [step |-> step, ev |-> "start"]
Finished(step) == [step |-> step, ev |-> "end"]

OUTPUT_PATH_ENVVAR == "UNREAL_SG_FBX_OUTPUT_PATH"
CONTENT_BROWSER_PATH_ENVVAR == "UNREAL_SG_CONTENT_BROWSER_PATH"
MAP_PATH_ENVVAR == "UNREAL_SG_MAP_PATH"
TurntableEnvVars ==
    {OUTPUT_PATH_ENVVAR, CONTENT_BROWSER_PATH_ENVVAR, MAP_PATH_ENVVAR}

\* unreal_setup_turntable.py run as a script: the names it reads with
\* os.environ[...], a KeyError if one is not set.
SetupScriptEnvVars ==
    {"UNREAL_SG_FBX_OUTPUT_PATH", "UNREAL_SG_ASSETS_PATH", "UNREAL_SG_MAP_PATH"}

AttributeError ==
    Exc("AttributeError", 0, "object has no attribute 'temp_folder'", <<>>)
OSError == Exc("OSError", 0, "", <<>>)
FileNotGenerated == Exc("RuntimeError", 0, "Expected file was not generated", <<>>)
ShotgunError == Exc("ShotgunError", 0, "", <<>>)

TempFolder == <<"tmp", "tmpXtemp_unreal_shotgun">>
FbxPath == TempFolder \o <<"robot_v001_101112_turntable.fbx">>

PublishRaises(e) ==
    /\ presult' = PRaised("publish", e)
    /\ ppc' = "idle"

\* Step 1: a temporary folder is made and kept on the item, and the scene is
\* exported to FBX; _maya_export_fbx catches what the export raises and publish
\* returns False.
PublishExport(exported) ==
    /\ ppc = "validated"
    /\ LET withFolder == SetLocalProperty(item, "temp_folder", TempFolder)
       IN  IF exported
           THEN /\ steps' = <<Started("export"), Finished("export")>>
                /\ item' = SetProperty(withFolder, "temp_fbx_path", FbxPath)
                /\ presult' = NoResult
                /\ ppc' = "script"
           ELSE /\ steps' = <<Started("export")>>
                /\ item' = withFolder
                /\ presult' = PReturned("publish", FALSE)
                /\ ppc' = "idle"
    /\ UNCHANGED <<hook, fbx, finalized, settings, scanned, disk_location, environ, movie>>

\* Steps 2 and 3: the setup script is located (a path with a space is copied
\* to self.temp_folder, an attribute the plugin does not have), its arguments
\* are put in the environment and it is started in Unreal with subprocess.call.
PublishSetupLaunch(launches) ==
    /\ ppc = "script"
    /\ IF HasSpace(disk_location)
       THEN /\ PublishRaises(AttributeError)
            /\ UNCHANGED <<steps, environ>>
       ELSE /\ environ' = environ \cup TurntableEnvVars
            /\ steps' = Append(steps, Started("setup"))
            /\ IF launches
               THEN /\ ppc' = "setup"
                    /\ UNCHANGED presult
               ELSE PublishRaises(OSError)
    /\ UNCHANGED <<hook, fbx, finalized, settings, scanned, disk_location, item, movie>>

\* Unreal exits, whatever its exit code: subprocess.call returns and the three
\* names are deleted from the environment.
PublishSetupExit ==
    /\ ppc = "setup"
    /\ steps' = Append(steps, Finished("setup"))
    /\ environ' = environ \ TurntableEnvVars
    /\ ppc' = "render"
    /\ UNCHANGED <<hook, fbx, finalized, settings, scanned, disk_location, item, presult, movie>>

\* Step 4: _unreal_render_sequence_to_movie removes a movie that is in the way
\* and starts the render; if the movie cannot be removed it returns
\* (False, None) without rendering, which publish does not look at: publish
\* goes on to test that the file at the publish path is there.
PublishRenderLaunch(removable, launches) ==
    /\ ppc = "render"
    /\ IF movie # "absent" /\ ~removable
       THEN /\ ppc' = "register"
            /\ UNCHANGED <<movie, steps, presult>>
       ELSE /\ movie' = "absent"
            /\ steps' = Append(steps, Started("render"))
            /\ IF launches
               THEN /\ ppc' = "rendering"
                    /\ UNCHANGED presult
               ELSE PublishRaises(OSError)
    /\ UNCHANGED <<hook, fbx, finalized, settings, scanned, disk_location, item, environ>>

\* The render exits, with or without a movie written; publish raises if no
\* file is at the publish path.
PublishRenderExit(produced) ==
    /\ ppc = "rendering"
    /\ steps' = Append(steps, Finished("render"))
    /\ IF produced
       THEN /\ movie' = "rendered"
            /\ ppc' = "register"
            /\ UNCHANGED presult
       ELSE /\ PublishRaises(FileNotGenerated)
            /\ UNCHANGED movie
    /\ UNCHANGED <<hook, fbx, finalized, settings, scanned, disk_location, item, environ>>

\* What the base plugin's publish registers in Shotgun for a plugin.
PublishData(by) == [by |-> by, path |-> MoviePath]

\* The base plugin's publish registers the movie; its data is kept on the
\* item, and in the local properties.
PublishRegister(ok) ==
    /\ ppc = "register"
    /\ IF ok
       THEN /\ steps' = steps \o <<Started("register"), Finished("register")>>
            /\ item' = SetLocalProperty(
                           SetProperty(item, "sg_publish_data",
                                       PublishData("turntable")),
                           "sg_publish_data", PublishData("turntable"))
            /\ ppc' = "version"
            /\ UNCHANGED presult
       ELSE /\ steps' = Append(steps, Started("register"))
            /\ PublishRaises(ShotgunError)
            /\ UNCHANGED item
    /\ UNCHANGED <<hook, fbx, finalized, settings, scanned, disk_location, environ, movie>>

\* shotgun.create("Version", version_data)
PublishVersion(ok) ==
    /\ ppc = "version"
    /\ IF ok
       THEN /\ steps' = steps \o <<Started("version"), Finished("version")>>
            /\ item' = SetLocalProperty(item, "sg_version_data",
                           [published_files |->
                                <<item.properties["sg_publish_data"][1]>>])
            /\ ppc' = "upload"
            /\ UNCHANGED presult
       ELSE /\ steps' = Append(steps, Started("version"))
            /\ PublishRaises(ShotgunError)
            /\ UNCHANGED item
    /\ UNCHANGED <<hook, fbx, finalized, settings, scanned, disk_location, environ, movie>>

\* shotgun.upload of the movie; publish returns.
PublishUpload(ok) ==
    /\ ppc = "upload"
    /\ IF ok
       THEN /\ steps' = steps \o <<Started("upload"), Finished("upload")>>
            /\ presult' = PReturned("publish", None)
            /\ ppc' = "published"
       ELSE /\ steps' = Append(steps, Started("upload"))
            /\ PublishRaises(ShotgunError)
    /\ UNCHANGED <<hook, fbx, finalized, settings, scanned, disk_location, item, environ, movie>>

\* ------------------------------------- the FBX plugin, and both finalize

\* What the base plugin's publish registers for the FBX plugin.
FbxPublishData == [by |-> "fbx", path |-> <<"publish", "fbx", "robot_v001.fbx">>]

\* item.local_properties.sg_publish_data of a plugin that has not published.
NoPublishData ==
    Exc("AttributeError", 0, "object has no attribute 'sg_publish_data'", <<>>)

\* publish returned False: the FBX export failed.
PublishReturnedFalse ==
    ppc = "idle" /\ presult.op = "publish" /\ presult.kind = "returned"

\* The publisher calls one plugin at a time: the turntable plugin is between
\* two of its calls, in the publish and finalize passes.
BetweenCalls ==
    \/ ppc \in {"validated", "published", "finalized"}
    \/ PublishReturnedFalse

\* MayaFBXPublishPlugin.publish: the base plugin's publish registers the FBX
\* file and leaves its data in item.properties.sg_publish_data, which the
\* plugin copies to its local properties; an exception ends the pass.
FbxPublish(ok) ==
    /\ BetweenCalls
    /\ fbx.pc = "idle"
    /\ IF ok
       THEN /\ item' = SetProperty(item, "sg_publish_data", FbxPublishData)
            /\ fbx' = [pc |-> "published", sg_publish_data |-> <<FbxPublishData>>]
       ELSE /\ fbx' = [fbx EXCEPT !.pc = "failed"]
            /\ UNCHANGED item
    /\ UNCHANGED <<hook, settings, scanned, disk_location, ppc, presult, steps,
                   environ, movie, finalized>>

\* A finalize that leaves item.properties.sg_publish_data as it finds it.
RestoreSgPublishData_KeepsProperty(properties, local_sg_publish_data) ==
    properties

\* The first statement of both finalize methods: the property the base
\* finalization reads is restored from the plugin's local properties.
RestoreSgPublishData(properties, local_sg_publish_data) ==
    [properties EXCEPT !["sg_publish_data"] = local_sg_publish_data]

\* MayaFBXPublishPlugin.finalize
FbxFinalize ==
    /\ BetweenCalls
    /\ fbx.pc = "published"
    /\ LET restored == RestoreSgPublishData(item.properties, fbx.sg_publish_data)
       IN  /\ item' = [item EXCEPT !.properties = restored]
           /\ finalized' =
                  [finalized EXCEPT !["fbx"] =
                       <<[found |-> item.properties["sg_publish_data"],
                          data |-> restored["sg_publish_data"][1]]>>]
    /\ fbx' = [fbx EXCEPT !.pc = "finalized"]
    /\ UNCHANGED <<hook, settings, scanned, disk_location, ppc, presult, steps,
                   environ, movie>>

\* MayaUnrealTurntablePublishPlugin.finalize, after a publish that returned:
\* a publish that returned False at the export left no local sg_publish_data
\* and reading it raises.
TurntableFinalize ==
    /\ fbx.pc # "failed"
    /\ ppc = "published" \/ PublishReturnedFalse
    /\ IF item.local_properties["sg_publish_data"] = <<>>
       THEN /\ presult' = PRaised("finalize", NoPublishData)
            /\ ppc' = "idle"
            /\ UNCHANGED <<item, finalized>>
       ELSE LET restored ==
                    RestoreSgPublishData(item.properties,
                                         item.local_properties["sg_publish_data"])
            IN  /\ item' = [item EXCEPT !.properties = restored]
                /\ finalized' =
                       [finalized EXCEPT !["turntable"] =
                            <<[found |-> item.properties["sg_publish_data"],
                               data |-> restored["sg_publish_data"][1]]>>]
                /\ presult' = PReturned("finalize", None)
                /\ ppc' = "finalized"
    /\ UNCHANGED <<hook, settings, scanned, disk_location, steps, environ,
                   movie, fbx>>

\* The publisher is started anew on the session: a new item is collected; the
\* movie a publish rendered is still at its path.
NewPublishSession ==
    /\ ppc \in {"idle", "published", "finalized"}
    /\ presult # NoResult
    /\ item' = NewItem
    /\ ppc' = "idle"
    /\ presult' = NoResult
    /\ steps' = <<>>
    /\ movie' = IF movie = "rendered" THEN "stale" ELSE movie
    /\ fbx' = FbxAtRest
    /\ finalized' = NotFinalized
    /\ UNCHANGED <<hook, settings, scanned, disk_location, environ>>

PluginNext ==
    \/ \E path \in SessionPaths, missing_keys \in BOOLEAN :
           ValidateBegin(path, missing_keys)
    \/ GetUnrealExecProperty
    \/ GetUnrealProjectProperty
    \/ ValidateEnd
    \/ \E exported \in BOOLEAN : PublishExport(exported)
    \/ \E launches \in BOOLEAN : PublishSetupLaunch(launches)
    \/ PublishSetupExit
    \/ \E removable, launches \in BOOLEAN : PublishRenderLaunch(removable, launches)
    \/ \E produced \in BOOLEAN : PublishRenderExit(produced)
    \/ \E ok \in BOOLEAN : PublishRegister(ok)
    \/ \E ok \in BOOLEAN : PublishVersion(ok)
    \/ \E ok \in BOOLEAN : PublishUpload(ok)
    \/ \E ok \in BOOLEAN : FbxPublish(ok)
    \/ FbxFinalize
    \/ TurntableFinalize
    \/ NewPublishSession

PluginSpec == PluginInit /\ [][PluginNext]_vars

\* =================================================================== claims

Names(list) == {list[i][1] : i \in 1..Len(list)}

GitHosts == {"github.com", "gitlab.com"}

HasBothFields(d) == Truthy(d.organization) /\ Truthy(d.repository)

\* The identifier of a github_release descriptor with both fields is a
\* registered name.
RegisteredByFields(list, d) ==
    /\ d.type = "github_release"
    /\ HasBothFields(d)
    /\ d.organization \o "/" \o d.repository \in Names(list)

\* The path reads git@<host>:<name>.git for a registered name and one of hosts.
RegisteredByPath(list, d, hosts) ==
    /\ Truthy(d.path)
    /\ \E host \in hosts, name \in Names(list) :
           d.path = "git@" \o host \o ":" \o name \o ".git"

\* C1 as stated: can_cache_bundle returns true if and only if the descriptor's
\* identifier is a registered name, the identifier being organization/repository
\* for a github_release descriptor with both fields and otherwise what the path
\* git@<host>:<organization>/<repository>.git names, whatever the host.
C1_AsStated ==
    \A r \in {canRet[i] : i \in 1..Len(canRet)} :
        r.ret = IF r.desc.type = "github_release" /\ HasBothFields(r.desc)
                THEN RegisteredByFields(sources, r.desc)
                ELSE RegisteredByPath(sources, r.desc, GitHosts)

\* C1 amended: can_cache_bundle returns true if and only if either the
\* descriptor is of type github_release, has both fields, and
\* organization/repository is a registered name, or it is of another type and
\* its path is git@github.com:<name>.git for a registered name.
C1_CanCacheBundle ==
    \A r \in {canRet[i] : i \in 1..Len(canRet)} :
        r.ret = \/ RegisteredByFields(sources, r.desc)
                \/ /\ r.desc.type # "github_release"
                   /\ RegisteredByPath(sources, r.desc, {"github.com"})

\* C1's case: a github_release descriptor naming a registered repository by its
\* fields has been answered true.
C1_Witness ==
    /\ canRet # <<>>
    /\ RegisteredByFields(sources, canRet[1].desc)
    /\ canRet[1].ret

\* A github_release descriptor whose organization/repository pair is not a
\* registered name.
Unregistered(list, d) ==
    /\ d.type = "github_release"
    /\ ~RegisteredByFields(list, d)

\* C2: for a github_release descriptor whose organization/repository pair is not
\* registered, can_cache_bundle returns false and populate_bundle_cache_entry
\* raises the "Don't know how to download" error, having done nothing else.
C2_UnregisteredRelease ==
    /\ \A r \in {canRet[i] : i \in 1..Len(canRet)} :
           Unregistered(sources, r.desc) => ~r.ret
    /\ \A d \in {descd[i] : i \in 1..Len(descd)} :
           Unregistered(sources, d) =>
               /\ pc = "done"
               /\ outcome = Raised(DontKnowHowToDownload)
               /\ reqRelease = 0

\* C2's case: populate was called for an unregistered github_release descriptor
\* that has both fields and, besides, a path naming a registered repository.
C2_Witness ==
    /\ pc = "done"
    /\ descd # <<>>
    /\ Unregistered(sources, descd[1])
    /\ HasBothFields(descd[1])
    /\ RegisteredByPath(sources, descd[1], {"github.com"})
    /\ outcome = Raised(DontKnowHowToDownload)

\* C3 as stated: a descriptor that is not a github_release and whose path is
\* git@<host>:<name>.git for a registered name, on any host, is answered true.
C3_AsStated ==
    \A r \in {canRet[i] : i \in 1..Len(canRet)} :
        (r.desc.type # "github_release"
            /\ RegisteredByPath(sources, r.desc, GitHosts)) => r.ret

\* C3 amended: a descriptor that is not a github_release and whose path is
\* git@github.com:<name>.git for a registered name is answered true.
C3_GitPath ==
    \A r \in {canRet[i] : i \in 1..Len(canRet)} :
        (r.desc.type # "github_release"
            /\ RegisteredByPath(sources, r.desc, {"github.com"})) => r.ret

\* C3's case: a git descriptor with a registered github.com path was answered.
C3_Witness ==
    /\ canRet # <<>>
    /\ canRet[1].desc.type = "git"
    /\ RegisteredByPath(sources, canRet[1].desc, {"github.com"})
    /\ canRet[1].ret

\* ------------------------------------------------------------ the assets

\* The naming convention: <version>-py<digit>.<digit>-<platform>.zip, and
\* nothing else.
ConventionName(version, pname, name) ==
    \E d1, d2 \in Digits : name = NameOf(version, d1, ".", d2, pname, ".", <<>>)

\* The release was fetched in this call (its asset list is in assets).
Fetched ==
    /\ reqRelease = 1
    /\ \A k \in 1..Len(faults) : faults[k].at \notin {"release", "release body"}
    /\ pc # "query"

\* The positions of the assets whose name follows the convention for the
\* descriptor's version and this platform.
ByConvention ==
    {i \in 1..Len(assets) :
        ConventionName(descd[1].version, PlatformName(system), assets[i])}

\* The positions of the assets the loop selects.
BySelection ==
    {i \in 1..Len(assets) :
        Selected(descd[1].version, PlatformName(system), assets[i])}

\* The archive of the asset and what it holds are in destination, whole.
Unpacked(i) ==
    /\ File(assets[i], "archive", TRUE) \in destFiles
    /\ File(assets[i], "tree", TRUE) \in destFiles

\* C4 as stated: the assets downloaded and extracted are exactly those whose
\* name follows the convention for the version and the platform: no other asset
\* is requested, and a call that returns has unpacked every one of them.
C4_AsStated ==
    Fetched =>
        /\ \A i \in 1..Len(assets) : reqAsset[i] > 0 => i \in ByConvention
        /\ outcome = Returned => \A i \in ByConvention : Unpacked(i)

\* C5 as stated: a call that ended either returned with every selected asset
\* unpacked, or raised and left nothing of its own in destination.
C5_AsStated ==
    (pc = "done" /\ Fetched) =>
        \/ outcome = Returned /\ \A i \in BySelection : Unpacked(i)
        \/ outcome.kind = "raised" /\ destFiles = {}

\* C5 amended: a call that ended either returned with every selected asset
\* unpacked, or raised; a call that raised removed nothing: destination holds,
\* whole, the archive and the contents of every asset unpacked before the
\* failure, besides what the failing download wrote, and nothing of any other
\* asset.
C5_AllOrRaise ==
    (pc = "done" /\ Fetched) =>
        LET selected == BySelection
        IN  \/ /\ outcome = Returned
               /\ \A i \in 1..Len(assets) : Unpacked(i) \/ i \notin selected
            \/ /\ outcome.kind = "raised"
               /\ \A k \in 1..Len(extracted) : Unpacked(extracted[k])
               /\ \A f \in destFiles :
                      \E i \in 1..Len(assets) :
                          i <= idx /\ f.name = assets[i] /\ i \in selected
               /\ destFiles # {} => \E i \in 1..Len(assets) : reqAsset[i] > 0

\* C5's case: the call raised on a later asset after an earlier one had been
\* unpacked, whose files are still there.
C5_Witness ==
    /\ pc = "done"
    /\ outcome.kind = "raised"
    /\ Len(extracted) = 1
    /\ Unpacked(extracted[1])
    /\ faults # <<>>
    /\ faults[Len(faults)].at = "extract"

\* C6 as stated: a call returns only if at least one asset follows the
\* convention and every asset that does is unpacked; every other call that
\* ended has raised.
C6_AsStated ==
    pc = "done" =>
        /\ outcome.kind \in {"returned", "raised"}
        /\ outcome = Returned =>
               /\ Fetched
               /\ ByConvention # {}
               /\ \A i \in ByConvention : Unpacked(i)

\* C7 as stated: when no asset of the release follows the convention for the
\* version and this (supported) platform, the call raises the "Couldn't
\* retrieve a suitable asset" error with the names of all the assets, has
\* requested no asset and has left nothing in destination.
C7_AsStated ==
    (pc = "done" /\ Fetched /\ PlatformName(system) # NoPlatform
        /\ ByConvention = {}) =>
        /\ outcome = Raised(NoSuitableAsset(assets))
        /\ \A i \in 1..Len(assets) : reqAsset[i] = 0
        /\ destFiles = {}

\* What the loop guarantees whatever the names are: a call that returned has
\* selected at least one asset and unpacked every asset it selected, and a call
\* that selected none raised the "Couldn't retrieve a suitable asset" error
\* with every name, without a download or a file.
SelectionLemma ==
    (pc = "done" /\ Fetched /\ PlatformName(system) # NoPlatform) =>
        /\ outcome = Returned =>
               BySelection # {} /\ \A i \in BySelection : Unpacked(i)
        /\ BySelection = {} =>
               /\ outcome = Raised(NoSuitableAsset(assets))
               /\ \A i \in 1..Len(assets) : reqAsset[i] = 0
               /\ destFiles = {}

\* ------------------------------------------------------ the release query

\* The error the release query answered with, if it did.
ReleaseFaults == {faults[k].exc : k \in {j \in 1..Len(faults) : faults[j].at = "release"}}

Logged == {log[k] : k \in 1..Len(log)}

\* C8 as stated: a 404 of the release query makes the call fail with an error
\* of the kind NotFoundError, a 401 with one of the kind UnauthorizedError, and
\* any other network error is raised as it came.
C8_AsStated ==
    \A e \in ReleaseFaults :
        pc = "done" =>
            IF HasCode(e) /\ e.code = 404
                THEN outcome.kind = "raised" /\ outcome.exc.type = "NotFoundError"
            ELSE IF HasCode(e) /\ e.code = 401
                THEN outcome.kind = "raised" /\ outcome.exc.type = "UnauthorizedError"
            ELSE outcome = Raised(e)

\* C8 amended: every network error of the release query is raised as it came,
\* the 404 and the 401 too; the call tells them apart in the log only, where a
\* 404 is reported as a release that does not exist, a 401 as an access that is
\* not authorised, and any other error by neither line.
C8_ReleaseErrors ==
    \A e \in ReleaseFaults :
        pc = "done" =>
            /\ outcome = Raised(e)
            /\ "error:Release does not exists" \in Logged
                   <=> (HasCode(e) /\ e.code = 404)
            /\ "error:Not authorised to access release" \in Logged
                   <=> (HasCode(e) /\ e.code = 401)

\* C8's case: the release query answered 404 and the call ended.
C8_Witness ==
    /\ pc = "done"
    /\ ReleaseFaults = {HTTPError(404)}
    /\ outcome = Raised(HTTPError(404))

\* ----------------------------------------------------------- the download

Token == IF specs = NoSpecs THEN "" ELSE specs[2]

\* C9: with a token, a request of the download that goes to another host than
\* the asset's url carries no Authorization: not the token header, not the
\* credentials of the installed handler.
C9_TokenStaysHome ==
    (pc = "await" /\ Truthy(Token)) =>
        (request[1].url.host # AssetUrl(specs[1], assets[idx]).host
            => OnWire(request[1]) = "")

\* C9's case: a download with a token has been redirected to another host.
C9_Witness ==
    /\ pc = "await"
    /\ Truthy(Token)
    /\ hops > 0
    /\ request[1].url.host # AssetUrl(specs[1], assets[idx]).host

\* The faults that ended nothing: the 401 challenges the installed handler
\* answered by sending the request again with its credentials.
Resent == {i \in 1..Len(reqAsset) : reqAsset[i] > 1}

Ended == pc = "done" /\ outcome.kind = "raised"

\* C10 as stated: in one call the release url is requested at most once and each
\* asset's url at most once, and a failing request ends the call with an error.
C10_AsStated ==
    /\ reqRelease <= 1
    /\ \A i \in 1..Len(reqAsset) : reqAsset[i] <= 1
    /\ faults # <<>> => Ended

\* C10 amended: in one call the release url is requested at most once and each
\* asset's url at most once, except that with a token a download answered by a
\* 401 challenge is sent once more, with the token as credentials; any other
\* failing request, and a second 401, ends the call with an error.
C10_NoRetry ==
    /\ reqRelease <= 1
    /\ \A i \in 1..Len(reqAsset) :
           reqAsset[i] <= IF Truthy(Token) THEN 2 ELSE 1
    /\ (\E k \in 1..Len(faults) : faults[k] # Fault("asset", HTTPError(401)))
           => Ended
    /\ Len(faults) > Cardinality(Resent) => Ended

\* C10's case: a download was challenged, sent again, and the call returned.
C10_Witness ==
    /\ pc = "done"
    /\ outcome = Returned
    /\ Resent # {}
    /\ faults # <<>>

\* ------------------------------------------------------- the loop's order

\* The positions of the assets a request was sent for.
Requested == {i \in 1..Len(reqAsset) : reqAsset[i] > 0}

\* The positions of the assets the loop has appended to "extracted".
Extracted == {extracted[k] : k \in 1..Len(extracted)}

\* C11: the assets are handled one at a time in the order of the release's
\* list: when an asset is requested every selected asset before it has been
\* downloaded and extracted whole, the asset in hand is the last one requested,
\* and a failing write or extraction ends the call, so that no asset after the
\* first failing one is requested.
C11_OneAtATime ==
    Fetched =>
        /\ LET selected == BySelection
           IN  \A j \in Requested :
                   /\ j <= idx
                   /\ \A i \in 1..(j - 1) :
                          (i \in Extracted /\ Unpacked(i)) \/ i \notin selected
        /\ \A k, l \in 1..Len(extracted) : k < l => extracted[k] < extracted[l]
        /\ (\E k \in 1..Len(faults) : faults[k].at \in {"write", "extract"})
               => (Ended /\ Requested \subseteq 1..idx)

\* C11's case: the second of two selected assets is being downloaded, the first
\* one having been unpacked.
C11_Witness ==
    /\ pc = "await"
    /\ Requested = {1, 2}
    /\ Extracted = {1}
    /\ Unpacked(1)

\* C12 as stated: a call that raised has logged the exception it raised, the
\* failure to resolve the descriptor included, raised the error as it arose,
\* and removed nothing it had unpacked.
C12_AsStated ==
    Ended =>
        /\ ("exception:" \o outcome.exc.type) \in Logged
        /\ faults # <<>> => outcome.exc = faults[Len(faults)].exc
        /\ \A i \in Extracted : Unpacked(i)

\* What holds of the exceptions raised inside the try block: each is logged,
\* raised as it arose, and nothing unpacked is removed.
LoggedInTryLemma ==
    (Ended /\ outcome # Raised(DontKnowHowToDownload)) =>
        /\ ("exception:" \o outcome.exc.type) \in Logged
        /\ faults # <<>> => outcome.exc = faults[Len(faults)].exc
        /\ \A i \in Extracted : Unpacked(i)

\* ------------------------------------------------------------ the platform

Supported == {"Darwin", "Linux", "Windows"}

\* C13 as stated: on a system that is none of Darwin, Linux and Windows a call
\* ends with the "Unsupported platform" error, no asset requested and nothing
\* written to destination.
C13_AsStated ==
    (pc = "done" /\ system \notin Supported) =>
        /\ outcome = Raised(UnsupportedPlatform)
        /\ Requested = {}
        /\ destFiles = {}
        /\ destExists = destBefore

\* C13 amended: on a system that is none of Darwin, Linux and Windows a call
\* requests no asset and writes nothing to destination, and it fails: with the
\* "Unsupported platform" error once the descriptor is resolved and the release
\* query has answered with a release, and otherwise with the error of the step
\* that failed before the platform is looked at.
C13_UnsupportedPlatform ==
    (descd # <<>> /\ system \notin Supported) =>
        /\ Requested = {}
        /\ destFiles = {}
        /\ destExists = destBefore
        /\ pc \in {"query", "platform", "done"}
        /\ pc = "done" =>
               /\ outcome.kind = "raised"
               /\ Fetched <=> outcome = Raised(UnsupportedPlatform)
               /\ ~Fetched =>
                      \/ outcome = Raised(DontKnowHowToDownload)
                      \/ /\ faults # <<>>
                         /\ faults[1].at \in {"release", "release body"}
                         /\ outcome = Raised(faults[1].exc)

\* C13's case: on FreeBSD the release answered with assets and the call raised
\* the "Unsupported platform" error.
C13_Witness ==
    /\ pc = "done"
    /\ system = "FreeBSD"
    /\ Len(assets) > 0
    /\ outcome = Raised(UnsupportedPlatform)

\* ----------------------------------------------------- the two operations

\* C14: populate_bundle_cache_entry resolves the descriptor as can_cache_bundle
\* does: it raises the "Don't know how to download" error if and only if
\* can_cache_bundle returns false for the descriptor, and then it has sent no
\* request.
C14_SameLogic ==
    \A d \in {descd[i] : i \in 1..Len(descd)} :
        IF can_cache_bundle(sources, d)
        THEN outcome # Raised(DontKnowHowToDownload)
        ELSE /\ pc = "done"
             /\ outcome = Raised(DontKnowHowToDownload)
             /\ reqRelease = 0
             /\ Requested = {}

\* C14's case: populate was called for a git descriptor whose path is on
\* another host than github.com, which can_cache_bundle answers false.
C14_Witness ==
    /\ pc = "done"
    /\ descd # <<>>
    /\ descd[1].type = "git"
    /\ Truthy(descd[1].path)
    /\ ~can_cache_bundle(sources, descd[1])
    /\ outcome = Raised(DontKnowHowToDownload)

\* C15: no step changes the list of registered sources, and a call of
\* can_cache_bundle sends no request, writes nothing to disk, installs no opener
\* and logs nothing.
C15_NoSideEffects ==
    [][/\ sources' = sources
       /\ (pc = "idle" /\ pc' = "idle")
              => UNCHANGED <<opener, wire, disk, log, outcome>>]_vars

\* C15's case: can_cache_bundle has answered true after a call of populate
\* that installed an opener of its own.
C15_Witness ==
    /\ pc = "idle"
    /\ canRet # <<>>
    /\ canRet[1].ret
    /\ opener # DefaultOpener

\* ---------------------------------------------------------- destination

\* The first selected asset's download request failed.
FirstDownloadFailed ==
    /\ pc = "done"
    /\ extracted = <<>>
    /\ faults # <<>>
    /\ faults[Len(faults)].at = "asset"

\* The archive of asset i has been written to destination, whole or in part.
Written(i) == \E whole \in BOOLEAN : File(assets[i], "archive", whole) \in destFiles

\* C19 as stated: a destination that was not there before the call is there
\* only once the download of an asset that follows the convention has answered
\* and is being written; it is not there after a call in which no asset follows
\* the convention, the release query failed, or the first download failed.
C19_AsStated ==
    (descd # <<>> /\ ~destBefore) =>
        /\ destExists => \E i \in ByConvention : i \in Requested /\ Written(i)
        /\ (pc = "done" /\ (~Fetched \/ ByConvention = {} \/ FirstDownloadFailed))
               => ~destExists

\* What holds of destination whatever the names are: it is created only once
\* the download of a selected asset has answered, and never in a call that
\* selects no asset, whose release query fails or whose first download fails.
DestinationLemma ==
    (descd # <<>> /\ ~destBefore) =>
        /\ destExists => \E i \in BySelection : i \in Requested /\ Written(i)
        /\ (pc = "done" /\ (~Fetched \/ BySelection = {} \/ FirstDownloadFailed))
               => ~destExists

\* C20: the archive of every asset the loop has extracted stays in destination:
\* a call that returned has extracted at least one asset, every asset that
\* follows the convention among them, and destination holds, for each, the
\* archive named after the asset besides what was extracted from it.
C20_ArchiveKept ==
    /\ \A i \in Extracted : File(assets[i], "archive", TRUE) \in destFiles
    /\ (pc = "done" /\ outcome = Returned) =>
           /\ Extracted # {}
           /\ ByConvention \subseteq Extracted
           /\ \A i \in Extracted : File(assets[i], "tree", TRUE) \in destFiles

\* C20's case: a call returned after extracting two assets.
C20_Witness ==
    /\ pc = "done"
    /\ outcome = Returned
    /\ Len(extracted) = 2
    /\ \A i \in Extracted : File(assets[i], "archive", TRUE) \in destFiles

\* ======================================================== turntable plugin

\* The place of a step in the order the description gives.
StepNo(step) == CHOOSE k \in 1..Len(StepOrder) : StepOrder[k] = step

\* C16 as stated: publish goes through its steps in the order of its
\* description (FBX export, Unreal setup script, command-line render,
\* registration of the publish, creation of the Version, upload): a step starts
\* only once every step before it has ended.
C16_AsStated ==
    \A p \in 1..Len(steps) :
        steps[p].ev = "start" =>
            \A j \in 1..(StepNo(steps[p].step) - 1) :
                \E q \in 1..(p - 1) : steps[q] = Finished(StepOrder[j])

\* What holds of the order of the steps: they start in the order of the
\* description, none starts while another is running, and the only step ever
\* left out before a later one is the render, when a movie that could not be
\* removed is at the publish path.
StepOrderLemma ==
    \A p \in 1..Len(steps) :
        steps[p].ev = "start" =>
            /\ \A q \in 1..(p - 1) :
                   /\ StepNo(steps[q].step) < StepNo(steps[p].step)
                   /\ steps[q].ev = "start" => steps[q + 1] = Finished(steps[q].step)
            /\ \A j \in 1..(StepNo(steps[p].step) - 1) :
                   \/ \E q \in 1..(p - 1) : steps[q] = Finished(StepOrder[j])
                   \/ StepOrder[j] = "render" /\ movie # "absent"

\* get_unreal_versions() for what is installed.
Detected == get_unreal_versions(scanned)

\* The places in Detected of the builds whose version is the one of the
\* settings.
Matching ==
    {k \in 1..Len(Detected) : Detected[k].version = settings.engine_version}

First(S) == CHOOSE k \in S : \A m \in S : k <= m

C18_AsStated ==
    /\ presult.op = "get_unreal_project_property" =>
           presult.kind = "raised" /\ presult.exc.type = "RuntimeError"
    /\ ppc = "unreal data" =>
           /\ item.properties["unreal_project_path"] # <<>>
           /\ DiskKind(item.properties["unreal_project_path"][1]) = "file"

\* ---------------------------------------------------------------- C21

\* C21: when the FBX plugin and the turntable plugin act on the same item,
\* whatever the order of their publish and finalize calls, the sg_publish_data
\* a plugin's finalize gives the base finalization is the publish data that
\* the same plugin's publish registered, never the other plugin's.
C21_OwnPublishData ==
    /\ finalized["fbx"] # <<>> => finalized["fbx"][1].data = FbxPublishData
    /\ finalized["turntable"] # <<>> =>
           finalized["turntable"][1].data = PublishData("turntable")

\* C21 witness: both plugins have finalized, and each found the other plugin's
\* publish data in item.properties when its finalize began.
C21_Witness ==
    /\ finalized["fbx"] # <<>>
    /\ finalized["turntable"] # <<>>
    /\ finalized["turntable"][1].found = <<FbxPublishData>>
    /\ finalized["fbx"][1].found = <<PublishData("turntable")>>
    /\ finalized["turntable"][1].data = PublishData("turntable")
    /\ finalized["fbx"][1].data = FbxPublishData

\* ---------------------------------------------------------------- C22

\* The steps of the publish under way that have begun, that have ended.
StepBegan(step) == \E i \in 1..Len(steps) : steps[i] = Started(step)
StepEnded(step) == \E i \in 1..Len(steps) : steps[i] = Finished(step)

\* C22, as the claim states it: publish registers a movie in Shotgun (publish,
\* Version, upload) only if the movie file was generated by the render of this
\* publish; when the render produces nothing, or a movie in the way could not
\* be removed before the render, publish raises and registers nothing.
C22_AsStated ==
    \A step \in {"register", "version", "upload"} :
        StepBegan(step) => StepEnded("render") /\ movie = "rendered"

\* What holds of it: a render that ran and left no file makes publish raise
\* before anything is registered, and a registration without this publish's
\* render is one of a movie that was at the publish path before.
RenderLemma ==
    /\ presult = PRaised("publish", FileNotGenerated) =>
           StepEnded("render") /\ ~StepBegan("register") /\ movie = "absent"
    /\ StepBegan("register") /\ ~StepEnded("render") =>
           ~StepBegan("render") /\ movie # "absent"

\* ---------------------------------------------------------------- C23

\* C23, as the claim states it: every environment variable that the Unreal
\* setup script reads as mandatory when run as a script (FBX path, assets
\* path, map path) is set by publish at the moment it launches the script.
C23_AsStated ==
    ppc = "setup" => SetupScriptEnvVars \subseteq environ

\* What holds of it: while the script runs, the three names of the plugin are
\* set, and of the names the script reads only the assets path is not.
SetupEnvLemma ==
    ppc = "setup" =>
        /\ TurntableEnvVars \subseteq environ
        /\ SetupScriptEnvVars \ environ = {"UNREAL_SG_ASSETS_PATH"}

\* ---------------------------------------------------------------- C25

\* C25, as the claim states it: the three turntable environment variables,
\* unset before publish, are set only for the duration of the Unreal setup
\* script, and so are unset again once publish has ended, whether it returned
\* or raised.
C25_AsStated ==
    environ \cap TurntableEnvVars # {} => ppc = "setup"

\* What holds of it: they are set while the script runs and deleted when
\* subprocess.call returns, so that a publish that gets past the setup step
\* with a clean environment ends with a clean environment; they stay only
\* when the executable could not be started.
EnvLemma ==
    /\ ppc = "setup" => TurntableEnvVars \subseteq environ
    /\ ppc \in {"render", "rendering", "register", "version", "upload",
                "published"} => environ = {}
    /\ presult = PRaised("publish", OSError) /\ ~StepBegan("render") =>
           environ = TurntableEnvVars

\* ---------------------------------------------------------------- C24

ValidateReturned(value) ==
    presult.op = "validate" /\ presult.kind = "returned" /\ presult.value = value

\* The item properties publish reads, each set to what validate computes
\* from the session, the settings and the installed builds.
PublishInputsSet ==
    /\ item.properties["work_path"] # <<>>
    /\ item.properties["work_path"][1] \in SessionPaths \ {""}
    /\ item.properties["unreal_exec_path"] =
           <<get_unreal_exec_property(settings, scanned).unreal_exec_path>>
    /\ item.properties["unreal_engine_version"] # <<>>
    /\ item.properties["unreal_project_path"] =
           <<get_unreal_project_property(
                 settings,
                 item.properties["unreal_engine_version"][1]).unreal_project_path>>
    /\ item.properties["turntable_map_path"] = <<settings.map_path>>
    /\ item.properties["sequence_path"] = <<settings.sequence_path>>
    /\ item.properties["unreal_content_browser_path"] = <<settings.assets_path>>
    /\ item.local_properties["publish_path"] = <<MoviePath>>

\* C24: whenever validate returns True, every item property publish reads
\* afterwards (unreal_exec_path, unreal_project_path, turntable_map_path,
\* sequence_path, unreal_content_browser_path, work_path and the local
\* publish_path) has been set by that validate; validate returns False or
\* raises whenever the session is unsaved, template keys are missing, or the
\* map, the sequence or the assets path is empty.
C24_Validate ==
    [][/\ ValidateReturned(TRUE)' => PublishInputsSet'
       /\ ( \/ \E missing_keys \in BOOLEAN : ValidateBegin("", missing_keys)
            \/ \E path \in SessionPaths : ValidateBegin(path, TRUE) )
          => ValidateReturned(FALSE)'
       /\ ( \/ settings.map_path = ""
            \/ settings.sequence_path = ""
            \/ settings.assets_path = "" )
          => ~ValidateReturned(TRUE)']_vars

\* C24 witness: validate returned True for a saved session, the executable
\* and the project found and the map, sequence and assets paths configured,
\* with all the properties publish reads set.
C24_Witness ==
    /\ ppc = "validated"
    /\ ValidateReturned(TRUE)
    /\ PublishInputsSet
    /\ item.properties["unreal_exec_path"][1] # NoPath
    /\ item.properties["unreal_project_path"][1] # NoPath
    /\ settings.assets_path # ""


====
